---- MODULE Spec2Model ----
(***************************************************************************)
(* A model of two composables of varlet-ui's utils/components.ts:          *)
(*   useValidation  the rule runner: validate, resetValidation,            *)
(*                  validateWithTrigger over the shared ref errorMessage;  *)
(*   useVModel      the two-way binding adapter, computed (non-passive)    *)
(*                  or ref plus two watchers (passive).                    *)
(* Promise continuations and watcher jobs are the atomic steps; a run of   *)
(* synchronous code between two awaits is one action.                      *)
(***************************************************************************)
EXTENDS Naturals, Sequences, FiniteSets, TLC

VARIABLES
    errorMessage,   \* useValidation: the ref errorMessage
    run,            \* useValidation: the calls in flight, in the order they started
    lastStep,       \* useValidation, history: what the step just taken did
    options,        \* useVModel: the options and the owner's kind
    props,          \* useVModel: the property bag
    proxy,          \* useVModel: the ref of the passive branch
    watchers,       \* useVModel: per watcher, its old value and whether its job is queued
    owner,          \* useVModel: the owner's bound state and whether its render is queued
    sent,           \* useVModel, history: the notifications the last write has led to
    stim            \* useVModel, history: the last write made from outside

valVars == <<errorMessage, run, lastStep>>
vmVars == <<options, props, proxy, watchers, owner, sent, stim>>
vars == <<errorMessage, run, lastStep,
          options, props, proxy, watchers, owner, sent, stim>>

(***************************************************************************)
(* Bounds.                                                                 *)
(***************************************************************************)
MaxRules == 3       \* rules held by the calls in flight, all calls together
Positions == {1, 2}  \* a call in flight and one that started after it

(***************************************************************************)
(* JavaScript values, as <<typeof, text>>.                                 *)
(***************************************************************************)
TrueV == <<"boolean", "true">>
FalseV == <<"boolean", "false">>
Undefined == <<"undefined", "">>
Null == <<"null", "">>
Str(s) == <<"string", s>>
Fn(name) == <<"function", name>>
Arr(elements) == <<"array", elements>>

\* String(res)
String(v) ==
    CASE v[1] = "undefined" -> "undefined"
      [] v[1] = "null" -> "null"
      [] OTHER -> v[2]

\* The state of a rule's promise: pending, rejected, or fulfilled with a value.
Pending == <<"promise", "pending">>
Rejected == <<"promise", "rejected">>

\* What a rule may resolve to.
RuleResults == {TrueV, FalseV, Str("too short")}

\* A rule either returns (a value or a promise) or throws when it is called.
RuleKinds == {"returns", "throws"}

RECURSIVE SeqsUpTo(_, _)
SeqsUpTo(S, n) ==
    IF n = 0 THEN {<<>>}
    ELSE LET shorter == SeqsUpTo(S, n - 1)
         IN  shorter \cup {Append(q, x) : q \in {p \in shorter : Len(p) = n - 1}, x \in S}

\* The rules argument: something that is no array, or an array of rules of which at
\* most one throws.
RulesInputs ==
    {Undefined} \cup
    {Arr(rules) : rules \in {q \in SeqsUpTo(RuleKinds, MaxRules) :
                                Cardinality({i \in 1..Len(q) : q[i] = "throws"}) <= 1}}

Triggers == {"onInput", "onChange"}
TriggerLists == {Arr(<<"onChange">>), Arr(<<"onInput", "onChange">>)}

(***************************************************************************)
(* useValidation.                                                          *)
(***************************************************************************)

\* isArray(x)
isArray(x) == x[1] = "array"

\* includes, had it asked only whether any trigger is listed.
includesAny(arr, x) == Len(arr[2]) > 0

\* validateTrigger.includes(trigger)
includes(arr, x) == \E i \in 1..Len(arr[2]) : arr[2][i] = x

\* A call in flight. dirty: errorMessage was written while the call waited for its
\* validate to settle; overtaken: the errorMessage now stored was written by a call
\* that started later.
Call(pc, entry, res, all, ret) ==
    [pc |-> pc, entry |-> entry, res |-> res, all |-> all, ret |-> ret,
     dirty |-> FALSE, overtaken |-> FALSE]

Calls == 1..Len(run)

RECURSIVE Held(_)
Held(k) == IF k = 0 THEN 0 ELSE Len(run[k].res) + Held(k - 1)

\* Whether one more call, with these rules, fits the bounds.
Fits(rules) ==
    /\ Len(run) < Cardinality(Positions)
    /\ isArray(rules) => Held(Len(run)) + Len(rules[2]) <= MaxRules

Remove(q, k) == SubSeq(q, 1, k - 1) \o SubSeq(q, k + 1, Len(q))

\* What the step just taken was and did; before is errorMessage as the step found it.
NoStep ==
    [step |-> "none", entry |-> "none", rules |-> Undefined,
     validateTrigger |-> Undefined, trigger |-> "none", invoked |-> 0, res |-> <<>>, all |-> "none", ret |-> "none", out |-> "none",
     before |-> "", dirty |-> FALSE, stale |-> FALSE]

\* The first rule of the array that throws when called, 0 if none does.
FirstThrow(rules) ==
    IF \E i \in 1..Len(rules[2]) : rules[2][i] = "throws"
    THEN CHOOSE i \in 1..Len(rules[2]) :
            rules[2][i] = "throws" /\ \A j \in 1..(i - 1) : rules[2][j] # "throws"
    ELSE 0

\* validate up to its await: the guard, then rules.map((rule) => rule(value, apis))
\* handed to Promise.all. A rule that throws ends the map and rejects the call.
validateStart(rules) ==
    IF ~isArray(rules) \/ Len(rules[2]) = 0
    THEN [pc |-> "returned", invoked |-> 0, res |-> <<>>, all |-> "none", ret |-> "true"]
    ELSE IF FirstThrow(rules) # 0
    THEN [pc |-> "returned", invoked |-> FirstThrow(rules), res |-> <<>>,
          all |-> "none", ret |-> "rejected"]
    ELSE [pc |-> "awaitAll", invoked |-> Len(rules[2]),
          res |-> [i \in 1..Len(rules[2]) |-> Pending], all |-> "pending", ret |-> "none"]

\* some, had it gone on past the first callback that returned true.
RECURSIVE someToTheEnd(_, _, _)
someToTheEnd(resArr, i, em) ==
    IF i > Len(resArr) THEN <<FALSE, em>>
    ELSE LET rest == someToTheEnd(resArr, i + 1,
                        IF resArr[i] # TrueV THEN String(resArr[i]) ELSE em)
         IN  <<resArr[i] # TrueV \/ rest[1], rest[2]>>

\* resArr.some((res) => { if (res !== true) { errorMessage.value = String(res); return true }
\* return false }), from index i on: <<whether some callback returned true, errorMessage>>.
RECURSIVE some(_, _, _)
some(resArr, i, em) ==
    IF i > Len(resArr) THEN <<FALSE, em>>
    ELSE IF resArr[i] # TrueV THEN <<TRUE, String(resArr[i])>>
    ELSE some(resArr, i + 1, em)

\* validateContinuation, had it cleared errorMessage when every rule passed.
validateContinuationClearing(r, em) ==
    IF r.all = "rejected"
    THEN [ret |-> "rejected", errorMessage |-> em]
    ELSE LET found == some(r.res, 1, em)
         IN  [ret |-> IF found[1] THEN "false" ELSE "true",
              errorMessage |-> IF found[1] THEN found[2] ELSE ""]

\* validateContinuation, had it waited with Promise.allSettled and read the results
\* of the rules that were fulfilled.
validateContinuationSettled(r, em) ==
    LET found == some(SelectSeq(r.res, LAMBDA x : x # Pending /\ x # Rejected), 1, em)
    IN  [ret |-> IF r.all = "rejected" THEN "rejected"
                 ELSE IF found[1] THEN "false" ELSE "true",
         errorMessage |-> found[2]]

\* validate after its await: a rejected Promise.all throws out of the function, a
\* fulfilled one hands resArr to some. [ret, errorMessage].
validateContinuation(r, em) ==
    IF r.all = "rejected"
    THEN [ret |-> "rejected", errorMessage |-> em]
    ELSE LET found == some(r.res, 1, em)
         IN  [ret |-> IF found[1] THEN "false" ELSE "true", errorMessage |-> found[2]]

\* triggerContinuation, had it left errorMessage alone.
triggerContinuationKeeping(ret, em) == em

\* validateWithTrigger after its await: (await validate(...)) && (errorMessage.value = '').
triggerContinuation(ret, em) == IF ret = "true" THEN "" ELSE em

\* The calls in flight after a step of call k (0: of no call) that wrote errorMessage
\* or did not.
Noted(k, wrote) ==
    [t \in Calls |->
        IF t # k /\ wrote
        THEN [run[t] EXCEPT !.dirty = (run[t].pc = "awaitValidate"),
                            !.overtaken = (k > t)]
        ELSE run[t]]

\* validate(rules, value, apis), called directly.
Validate(rules) ==
    /\ Fits(rules)
    /\ LET st == validateStart(rules)
       IN  /\ run' = IF st.pc = "returned" THEN run
                     ELSE Append(run, Call(st.pc, "validate", st.res, st.all, st.ret))
           /\ lastStep' = [NoStep EXCEPT !.step = "call", !.entry = "validate",
                                  !.rules = rules, !.invoked = st.invoked,
                                  !.ret = st.ret,
                                  !.out = IF st.pc = "returned" THEN st.ret ELSE "pending",
                                  !.before = errorMessage]
    /\ UNCHANGED errorMessage
    /\ UNCHANGED vmVars

\* validateWithTrigger(validateTrigger, trigger, rules, value, apis).
ValidateWithTrigger(validateTrigger, trigger, rules) ==
    /\ Fits(rules)
    /\ LET st == validateStart(rules)
           fired == includes(validateTrigger, trigger)
       IN  /\ run' = IF ~fired THEN run
                     ELSE Append(run,
                            Call(IF st.pc = "returned" THEN "awaitValidate" ELSE st.pc,
                                 "validateWithTrigger", st.res, st.all, st.ret))
           /\ lastStep' = [NoStep EXCEPT !.step = "call", !.entry = "validateWithTrigger",
                                  !.rules = rules, !.validateTrigger = validateTrigger,
                                  !.trigger = trigger,
                                  !.invoked = IF fired THEN st.invoked ELSE 0,
                                  !.ret = IF fired THEN st.ret ELSE "none",
                                  !.out = IF fired THEN "pending" ELSE "undefined",
                                  !.before = errorMessage]
    /\ UNCHANGED errorMessage
    /\ UNCHANGED vmVars

\* The promise of rule i settles: fulfilled with a result, or rejected. Promise.all
\* rejects with the first rejection and is fulfilled once every rule's promise is.
Settle(k, i, o) ==
    /\ k \in Calls
    /\ run[k].pc = "awaitAll"
    /\ i \in 1..Len(run[k].res)
    /\ run[k].res[i] = Pending
    /\ LET res == [run[k].res EXCEPT ![i] = o]
           all == IF o = Rejected THEN "rejected"
                  ELSE IF \A j \in 1..Len(res) : res[j] # Pending THEN "fulfilled"
                  ELSE "pending"
       IN  run' = [run EXCEPT ![k].res = res, ![k].all = all,
                              ![k].pc = IF all = "pending" THEN "awaitAll" ELSE "resume"]
    /\ lastStep' = NoStep
    /\ UNCHANGED errorMessage
    /\ UNCHANGED vmVars

\* ValidateResume, had it kept a call from writing over the message of a call that
\* started after it.
ValidateResumeGuarded(k) ==
    /\ k \in Calls
    /\ run[k].pc = "resume"
    /\ LET c == validateContinuation(run[k], errorMessage)
           direct == run[k].entry = "validate"
           wrote == c.ret = "false" /\ ~run[k].overtaken
           noted == Noted(k, wrote)
       IN  /\ errorMessage' = IF wrote THEN c.errorMessage ELSE errorMessage
           /\ run' = IF direct THEN Remove(noted, k)
                     ELSE [noted EXCEPT ![k].pc = "awaitValidate", ![k].ret = c.ret,
                                        ![k].overtaken = @ /\ ~wrote]
           /\ lastStep' = [NoStep EXCEPT !.step = "validate", !.entry = run[k].entry,
                                  !.invoked = Len(run[k].res),
                                  !.res = run[k].res, !.all = run[k].all, !.ret = c.ret,
                                  !.out = IF direct THEN c.ret ELSE "pending",
                                  !.before = errorMessage, !.stale = run[k].overtaken]
    /\ UNCHANGED vmVars

\* validate resumes after await Promise.all(...) and returns or throws.
ValidateResume(k) ==
    /\ k \in Calls
    /\ run[k].pc = "resume"
    /\ LET c == validateContinuation(run[k], errorMessage)
           direct == run[k].entry = "validate"
           noted == Noted(k, c.ret = "false")
       IN  /\ errorMessage' = c.errorMessage
           /\ run' = IF direct THEN Remove(noted, k)
                     ELSE [noted EXCEPT ![k].pc = "awaitValidate", ![k].ret = c.ret,
                                        ![k].overtaken = @ /\ c.ret # "false"]
           /\ lastStep' = [NoStep EXCEPT !.step = "validate", !.entry = run[k].entry,
                                  !.invoked = Len(run[k].res),
                                  !.res = run[k].res, !.all = run[k].all, !.ret = c.ret,
                                  !.out = IF direct THEN c.ret ELSE "pending",
                                  !.before = errorMessage, !.stale = run[k].overtaken]
    /\ UNCHANGED vmVars

\* validateWithTrigger resumes after await validate(...).
TriggerResume(k) ==
    /\ k \in Calls
    /\ run[k].pc = "awaitValidate"
    /\ errorMessage' = triggerContinuation(run[k].ret, errorMessage)
    /\ run' = Remove(Noted(k, run[k].ret = "true"), k)
    /\ lastStep' = [NoStep EXCEPT !.step = "trigger", !.entry = run[k].entry,
                           !.invoked = Len(run[k].res),
                           !.res = run[k].res, !.all = run[k].all, !.ret = run[k].ret,
                           !.out = IF run[k].ret = "rejected" THEN "rejected"
                                   ELSE "undefined",
                           !.before = errorMessage, !.dirty = run[k].dirty,
                           !.stale = run[k].overtaken]
    /\ UNCHANGED vmVars

\* resetValidation()
ResetValidation ==
    /\ errorMessage' = ""
    /\ run' = Noted(0, TRUE)
    /\ lastStep' = [NoStep EXCEPT !.step = "reset", !.before = errorMessage]
    /\ UNCHANGED vmVars

\* useVModel is not in use while the validation runner is examined.
IdleVModel ==
    /\ options = <<>>
    /\ props = <<>>
    /\ proxy = Undefined
    /\ watchers = <<>>
    /\ owner = <<>>
    /\ sent = <<>>
    /\ stim = <<>>

\* useValidation(): errorMessage = ref('').
InitValidation ==
    /\ errorMessage = ""
    /\ run = <<>>
    /\ lastStep = NoStep
    /\ IdleVModel

NextValidation ==
    \/ \E rules \in RulesInputs : Validate(rules)
    \/ \E validateTrigger \in TriggerLists, trigger \in Triggers, rules \in RulesInputs :
            ValidateWithTrigger(validateTrigger, trigger, rules)
    \/ \E k \in Positions, i \in 1..MaxRules, o \in RuleResults \cup {Rejected} :
            Settle(k, i, o)
    \/ \E k \in Positions : ValidateResume(k)
    \/ \E k \in Positions : TriggerResume(k)
    \/ ResetValidation

SpecValidation == InitValidation /\ [][NextValidation]_vars

(***************************************************************************)
(* useVModel.                                                              *)
(***************************************************************************)

\* The key the adapter binds, and the names the property bag holds.
Key == "modelValue"
PropNames == {Key, "onUpdate:modelValue", "update:modelValue", "onChange"}

\* The values the bound property and the cell take.
Values == {Null, Undefined, Str("a"), Str("b")}

\* bag[name], undefined for a name the bag does not hold.
Lookup(bag, name) == IF name \in DOMAIN bag THEN bag[name] ELSE Undefined

\* x != null
NotNullish(x) == x # Null /\ x # Undefined

\* resolveEvent, had it named the event as it is emitted, not as its listener is bound.
resolveEventEmitted(eventName, key) ==
    IF NotNullish(eventName) THEN eventName[2] ELSE "update:" \o key

\* eventName ?? `onUpdate:${key.toString()}`
resolveEvent(eventName, key) ==
    IF NotNullish(eventName) THEN eventName[2] ELSE "onUpdate:" \o key

event == resolveEvent(options.eventName, Key)

\* getValue = () => (props[key] != null ? props[key] : defaultValue)
getValue(bag, defaultValue) ==
    IF NotNullish(Lookup(bag, Key)) THEN Lookup(bag, Key) ELSE defaultValue

\* call(fn, ...args): the functions it invokes, in order.
call(fn) ==
    IF isArray(fn) THEN fn[2]
    ELSE IF NotNullish(fn) THEN <<fn>>
    ELSE <<>>

\* notify, had it called the listeners whether or not an emitter was given.
notifyBoth(value) ==
    [via |-> IF options.emit THEN "emit" ELSE "call", event |-> event, value |-> value,
     fns |-> call(Lookup(props, event))]

\* emit ? emit(event, value) : call(props[event], value): the notification sent.
notify(value) ==
    IF options.emit
    THEN [via |-> "emit", event |-> event, value |-> value, fns |-> <<>>]
    ELSE [via |-> "call", event |-> event, value |-> value,
          fns |-> call(Lookup(props, event))]

\* hasChanged, had a write of the value already held counted as a change.
alwaysChanged(a, b) == TRUE

\* Object.is on the values modelled: what a ref and a watcher take for a change.
hasChanged(a, b) == a # b

\* The owner after a notification: one that writes back takes the value as its own
\* state when the notification reached it, and renders again if that changed.
Notified(n) ==
    IF owner.echo /\ (n.via = "emit" \/ Len(n.fns) > 0)
    THEN [owner EXCEPT !.state = n.value,
                       !.render = owner.render \/ hasChanged(n.value, owner.state)]
    ELSE owner

Quiescent ==
    /\ ~watchers.inbound.queued
    /\ ~watchers.outbound.queued
    /\ ~owner.render

\* What a read of the returned cell yields: get() of the computed, or proxy.value.
Read == IF options.passive THEN proxy ELSE getValue(props, options.defaultValue)

\* A write from outside that found the watchers and the owner at rest (clean): its
\* value, and what the cell and the source held. Of a write that did not, and of the
\* notifications it leads to, nothing is recorded.
NoStimulus ==
    [kind |-> "none", value |-> Undefined, cell |-> Undefined, src |-> Undefined,
     clean |-> FALSE]

Stimulus(kind, v) ==
    IF Quiescent
    THEN [kind |-> kind, value |-> v, cell |-> Read, src |-> Lookup(props, Key),
          clean |-> TRUE]
    ELSE NoStimulus

Recorded(n) == IF stim.clean THEN Append(sent, n) ELSE <<>>

\* set(value) of the computed the non-passive branch returns.
EagerWrite(v) ==
    /\ ~options.passive
    /\ LET n == notify(v)
       IN  /\ sent' = <<n>>
           /\ owner' = Notified(n)
    /\ stim' = [kind |-> "local", value |-> v, cell |-> Read,
                src |-> Lookup(props, Key), clean |-> TRUE]
    /\ UNCHANGED <<options, props, proxy, watchers>>
    /\ UNCHANGED valVars

\* proxy.value = v, written by the component: the ref queues the job of the watcher
\* that reads it when the value changes.
LocalWrite(v) ==
    /\ options.passive
    /\ proxy' = v
    /\ watchers' = [watchers EXCEPT !.outbound.queued = @ \/ hasChanged(v, proxy)]
    /\ sent' = <<>>
    /\ stim' = Stimulus("local", v)
    /\ UNCHANGED <<options, props, owner>>
    /\ UNCHANGED valVars

\* The owner gives the bound property another value; the property bag follows at the
\* owner's next render.
ExternalChange(v) ==
    /\ hasChanged(v, owner.state)
    /\ owner' = [owner EXCEPT !.state = v, !.render = TRUE]
    /\ sent' = <<>>
    /\ stim' = Stimulus("external", v)
    /\ UNCHANGED <<options, props, proxy, watchers>>
    /\ UNCHANGED valVars

\* The owner renders: props[key] takes the owner's state, and the watcher of
\* () => props[key] is queued when that is a change.
OwnerRender ==
    /\ owner.render
    /\ props' = [props EXCEPT ![Key] = owner.state]
    /\ watchers' = [watchers EXCEPT !.inbound.queued =
                        @ \/ (options.passive /\ hasChanged(owner.state, props[Key]))]
    /\ owner' = [owner EXCEPT !.render = FALSE]
    /\ UNCHANGED <<options, proxy, sent, stim>>
    /\ UNCHANGED valVars

\* RunInbound, had its callback sent the notification as well.
RunInboundNotifying ==
    /\ watchers.inbound.queued
    /\ LET newValue == Lookup(props, Key)
           fires == hasChanged(newValue, watchers.inbound.old)
           cell == IF fires THEN getValue(props, options.defaultValue) ELSE proxy
           n == notify(cell)
       IN  /\ proxy' = cell
           /\ sent' = IF fires THEN Recorded(n) ELSE sent
           /\ owner' = IF fires THEN Notified(n) ELSE owner
           /\ watchers' = [watchers EXCEPT
                             !.inbound = [old |-> newValue, queued |-> FALSE],
                             !.outbound.queued = @ \/ hasChanged(cell, proxy)]
    /\ UNCHANGED <<options, props, stim>>
    /\ UNCHANGED valVars

\* The job of watch(() => props[key], () => { proxy.value = getValue() }).
RunInbound ==
    /\ watchers.inbound.queued
    /\ LET newValue == Lookup(props, Key)
           fires == hasChanged(newValue, watchers.inbound.old)
           cell == IF fires THEN getValue(props, options.defaultValue) ELSE proxy
       IN  /\ proxy' = cell
           /\ watchers' = [watchers EXCEPT
                             !.inbound = [old |-> newValue, queued |-> FALSE],
                             !.outbound.queued = @ \/ hasChanged(cell, proxy)]
    /\ UNCHANGED <<options, props, owner, sent, stim>>
    /\ UNCHANGED valVars

\* The job of watch(() => proxy.value, (newValue) => { emit ? ... : call(...) }).
RunOutbound ==
    /\ watchers.outbound.queued
    /\ LET newValue == proxy
           fires == hasChanged(newValue, watchers.outbound.old)
           n == notify(newValue)
       IN  /\ sent' = IF fires THEN Recorded(n) ELSE sent
           /\ owner' = IF fires THEN Notified(n) ELSE owner
           /\ watchers' = [watchers EXCEPT
                             !.outbound = [old |-> newValue, queued |-> FALSE]]
    /\ UNCHANGED <<options, props, proxy, stim>>
    /\ UNCHANGED valVars

\* useValidation is not in use while the adapter is examined.
IdleValidation ==
    /\ errorMessage = ""
    /\ run = <<>>
    /\ lastStep = NoStep

\* The state useVModel(props, key, options) returns in: proxy = ref(getValue()), both
\* watchers created with the value they read as their old value (the non-passive
\* branch creates neither the ref nor the watchers).
InitVModel ==
    /\ options \in [passive : BOOLEAN, eventName : {Undefined, Str("onChange")},
                    defaultValue : {Undefined, Str("a")}, emit : BOOLEAN]
    /\ \E v \in Values,
          l \in {Undefined, Fn("f"), Arr(<<Fn("f"), Fn("g")>>)} :
            /\ props = [n \in PropNames |->
                          CASE n = Key -> v
                            [] n = "onUpdate:modelValue" -> l
                            [] n = "update:modelValue" -> Fn("u")
                            [] n = "onChange" -> Fn("h")]
            /\ owner \in [state : {v}, render : {FALSE}, echo : BOOLEAN]
    /\ proxy = IF options.passive THEN getValue(props, options.defaultValue) ELSE Undefined
    /\ watchers = [inbound |-> [old |-> IF options.passive THEN props[Key] ELSE Undefined,
                                queued |-> FALSE],
                   outbound |-> [old |-> proxy, queued |-> FALSE]]
    /\ sent = <<>>
    /\ stim = NoStimulus
    /\ IdleValidation

NextVModel ==
    \/ \E v \in Values : EagerWrite(v)
    \/ \E v \in Values : LocalWrite(v)
    \/ \E v \in Values : ExternalChange(v)
    \/ OwnerRender
    \/ RunInbound
    \/ RunOutbound

SpecVModel == InitVModel /\ [][NextVModel]_vars

\* Vue's scheduler runs every queued job, and the owner's render is one of them.
SpecVModelFair ==
    /\ SpecVModel
    /\ WF_vars(OwnerRender)
    /\ WF_vars(RunInbound)
    /\ WF_vars(RunOutbound)

(***************************************************************************)
(* Properties of useValidation, under SpecValidation. lastStep holds what  *)
(* the step just taken found and returned; errorMessage is what it left.   *)
(***************************************************************************)

Fails(resArr) == \E i \in 1..Len(resArr) : resArr[i] # TrueV

\* The lowest index of a result that is not true.
FirstFailing(resArr) ==
    CHOOSE i \in 1..Len(resArr) :
        resArr[i] # TrueV /\ \A j \in 1..(i - 1) : resArr[j] = TrueV

NoRules(rules) == ~isArray(rules) \/ rules[2] = <<>>

Listed(validateTrigger, trigger) ==
    trigger \in {validateTrigger[2][i] : i \in 1..Len(validateTrigger[2])}

\* The call reached validate: it is a direct call, or its trigger is listed.
CalledValidate ==
    /\ lastStep.step = "call"
    /\ lastStep.entry = "validateWithTrigger"
            => Listed(lastStep.validateTrigger, lastStep.trigger)

\* C1: when every rule of a run resolved and at least one result is not true, validate
\* returns false and leaves errorMessage at String of the failing result with the lowest
\* index, in whatever order the rules' promises resolved.
C1_FirstFailingWins ==
    (lastStep.step = "validate" /\ lastStep.all = "fulfilled" /\ Fails(lastStep.res))
        => /\ lastStep.ret = "false"
           /\ lastStep.entry = "validate" => lastStep.out = "false"
           /\ errorMessage = String(lastStep.res[FirstFailing(lastStep.res)])

\* A run with two failing results of different text has just left the first one's.
C1_Witness ==
    /\ lastStep.step = "validate"
    /\ Len(lastStep.res) >= 2
    /\ \E i, j \in 1..Len(lastStep.res) :
            /\ i < j
            /\ lastStep.res[i] # TrueV
            /\ lastStep.res[j] \in RuleResults \ {TrueV}
            /\ String(lastStep.res[i]) # String(lastStep.res[j])
            /\ errorMessage = String(lastStep.res[i])
    /\ lastStep.ret = "false"

\* C2: a validate that returns true does not write errorMessage: with rules empty or
\* no list it returns true at once and invokes no rule, and with every result true it
\* returns true and errorMessage keeps the value it had.
C2_TrueWritesNothing ==
    /\ (CalledValidate /\ NoRules(lastStep.rules))
            => /\ lastStep.ret = "true"
               /\ lastStep.invoked = 0
               /\ errorMessage = lastStep.before
    /\ (lastStep.step = "validate" /\ lastStep.all = "fulfilled" /\ ~Fails(lastStep.res))
            => /\ lastStep.ret = "true"
               /\ errorMessage = lastStep.before

\* A run whose rules all resolved to true has returned with the message of an earlier
\* failing run still in place.
C2_Witness ==
    /\ lastStep.step = "validate"
    /\ lastStep.entry = "validate"
    /\ Len(lastStep.res) >= 1
    /\ lastStep.ret = "true"
    /\ errorMessage # ""

\* C3, as claimed: when validateWithTrigger completes without rejection, errorMessage
\* is empty if the run succeeded and the string of the first failing result if it failed.
C3_AsClaimed ==
    (lastStep.step = "trigger" /\ lastStep.out # "rejected")
        => /\ lastStep.ret = "true" => errorMessage = ""
           /\ lastStep.ret = "false"
                => errorMessage = String(lastStep.res[FirstFailing(lastStep.res)])

\* C3, amended: on success validateWithTrigger's continuation sets errorMessage to the
\* empty string; on failure it writes nothing, so errorMessage is the string of the
\* first failing result unless another call or resetValidation wrote it after the
\* run's validate returned; a direct validate that returns true clears nothing.
C3_ClearsOnSuccess ==
    /\ (lastStep.step = "trigger" /\ lastStep.ret = "true") => errorMessage = ""
    /\ (lastStep.step = "trigger" /\ lastStep.ret = "false")
            => /\ errorMessage = lastStep.before
               /\ ~lastStep.dirty
                    => errorMessage = String(lastStep.res[FirstFailing(lastStep.res)])
    /\ (lastStep.step \in {"call", "validate"} /\ lastStep.entry = "validate"
            /\ lastStep.ret = "true")
            => errorMessage = lastStep.before

\* validateWithTrigger has completed a failed run that nothing wrote over.
C3_Witness ==
    /\ lastStep.step = "trigger"
    /\ lastStep.ret = "false"
    /\ ~lastStep.dirty
    /\ Len(lastStep.res) >= 2
    /\ lastStep.before = String(lastStep.res[FirstFailing(lastStep.res)])
    /\ errorMessage # ""

\* C4: validateWithTrigger with a trigger that is not listed invokes no rule and leaves
\* errorMessage as it was, whatever the rules and the message.
C4_UnlistedTriggerNoOp ==
    (lastStep.step = "call" /\ lastStep.entry = "validateWithTrigger"
        /\ ~Listed(lastStep.validateTrigger, lastStep.trigger))
        => /\ lastStep.invoked = 0
           /\ lastStep.ret = "none"
           /\ lastStep.out = "undefined"
           /\ errorMessage = lastStep.before

\* An unlisted trigger was fired with rules at hand and a message stored.
C4_Witness ==
    /\ lastStep.step = "call"
    /\ lastStep.entry = "validateWithTrigger"
    /\ ~Listed(lastStep.validateTrigger, lastStep.trigger)
    /\ ~NoRules(lastStep.rules)
    /\ lastStep.invoked = 0
    /\ errorMessage # ""

\* C8: when a rule rejects or throws, the call rejects and the run writes nothing to
\* errorMessage: no failure message, whatever the other rules resolved to, and no
\* clearing by validateWithTrigger.
C8_RejectionWritesNothing ==
    /\ (lastStep.step = "validate" /\ lastStep.all = "rejected")
            => /\ lastStep.ret = "rejected"
               /\ lastStep.entry = "validate" => lastStep.out = "rejected"
               /\ errorMessage = lastStep.before
    /\ (CalledValidate /\ ~NoRules(lastStep.rules)
            /\ \E i \in 1..Len(lastStep.rules[2]) : lastStep.rules[2][i] = "throws")
            => /\ lastStep.ret = "rejected"
               /\ lastStep.entry = "validate" => lastStep.out = "rejected"
               /\ errorMessage = lastStep.before
    /\ (lastStep.step = "trigger" /\ lastStep.ret = "rejected")
            => /\ lastStep.out = "rejected"
               /\ errorMessage = lastStep.before

\* A run was rejected after another of its rules had resolved to a failure, and the
\* message is not that failure's.
C8_Witness ==
    /\ lastStep.step = "validate"
    /\ lastStep.all = "rejected"
    /\ lastStep.ret = "rejected"
    /\ \E i \in 1..Len(lastStep.res) :
            /\ lastStep.res[i] \in RuleResults \ {TrueV}
            /\ errorMessage # String(lastStep.res[i])

\* C9: no guard orders overlapping runs: a continuation that resumes when errorMessage
\* holds what a call started later has written still writes, the failing run its
\* message and the successful validateWithTrigger the empty string.
C9_StaleRunOverwrites ==
    lastStep.stale
        => /\ (lastStep.step = "validate" /\ lastStep.all = "fulfilled"
                    /\ Fails(lastStep.res))
                => errorMessage = String(lastStep.res[FirstFailing(lastStep.res)])
           /\ (lastStep.step = "trigger" /\ lastStep.ret = "true") => errorMessage = ""

\* A call has written its message over the different one of a call started after it.
C9_Witness ==
    /\ lastStep.stale
    /\ lastStep.step = "validate"
    /\ lastStep.ret = "false"
    /\ lastStep.before # ""
    /\ errorMessage # lastStep.before

(***************************************************************************)
(* Properties of useVModel, under SpecVModel and SpecVModelFair. stim      *)
(* holds the last write from outside that found everything at rest, sent   *)
(* the notifications it has led to.                                        *)
(***************************************************************************)

SentValues == [i \in 1..Len(sent) |-> sent[i].value]

\* The channel a notification takes: the emitter, or the listeners bound at the name.
Channel(name) ==
    IF options.emit THEN [via |-> "emit", fns |-> <<>>]
    ELSE [via |-> "call", fns |-> call(Lookup(props, name))]

\* A source value as the adapter resolves it.
ResolvedOf(v) == IF v \in {Null, Undefined} THEN options.defaultValue ELSE v

Resolved == ResolvedOf(props[Key])

\* C5, as claimed: in passive mode an external change of props[key] to v leaves the cell
\* at v and sends one notification carrying v, and a local write of v2 sends one
\* notification carrying v2, for every v and v2.
C5_AsClaimed ==
    (options.passive /\ stim.clean /\ Quiescent)
        => /\ stim.kind = "external"
                => proxy = stim.value /\ SentValues = <<stim.value>>
           /\ stim.kind = "local" => SentValues = <<stim.value>>

\* C5, amended: the same for a value that is neither null nor undefined and differs
\* from the value the cell holds, written when the watchers are at rest and followed by
\* no other write before they have run; the one notification goes to the emitter, or
\* else to the listeners at props[event].
C5_OneNotification ==
    (options.passive /\ stim.clean /\ Quiescent
        /\ NotNullish(stim.value) /\ stim.value # stim.cell)
        => /\ stim.kind = "external" => proxy = stim.value
           /\ stim.kind \in {"external", "local"}
                => /\ SentValues = <<stim.value>>
                   /\ sent[1].via = Channel(sent[1].event).via
                   /\ sent[1].fns = Channel(sent[1].event).fns

\* An external change to a new value has reached the cell and gone out once.
C5_Witness ==
    /\ options.passive
    /\ stim.clean
    /\ Quiescent
    /\ stim.kind = "external"
    /\ NotNullish(stim.value)
    /\ stim.value # stim.cell
    /\ proxy = stim.value
    /\ Len(sent) = 1

\* C6: in non-passive mode a write of v calls the emitter that was given exactly once,
\* with (event, v), calls no listener of props[event], and keeps no state: a read
\* yields the resolved source value, as before the write, until props[key] changes.
C6_EagerWriteOnlyEmits ==
    (~options.passive /\ stim.kind = "local")
        => /\ options.emit
                => sent = <<[via |-> "emit", event |-> event,
                             value |-> stim.value, fns |-> <<>>]>>
           /\ proxy = Undefined
           /\ ~watchers.inbound.queued /\ ~watchers.outbound.queued
           /\ Read = Resolved
           /\ props[Key] = stim.src => Read = stim.cell

\* A value other than the one read was written through an emitter while a listener
\* was bound too, and the read has not moved.
C6_Witness ==
    /\ ~options.passive
    /\ options.emit
    /\ stim.kind = "local"
    /\ stim.value # stim.cell
    /\ Len(sent) = 1
    /\ call(Lookup(props, sent[1].event)) # <<>>
    /\ Read = stim.cell

\* The event name under which every notification sent so far went out is `name`, and
\* the listeners called are those the property bag holds under it.
SentUnder(name) ==
    \A i \in 1..Len(sent) :
        /\ sent[i].event = name
        /\ sent[i].via = "call" => sent[i].fns = call(Lookup(props, name))

\* C7, as claimed: the event name is options.eventName when given, else "update:"
\* followed by the key.
C7_AsClaimed ==
    SentUnder(IF options.eventName = Undefined THEN "update:" \o Key
              ELSE options.eventName[2])

\* C7, amended: the event name, passed to the emitter and used to look the listeners
\* up, is options.eventName when given, else "onUpdate:" followed by the key.
C7_EventName ==
    SentUnder(IF options.eventName = Undefined THEN "onUpdate:" \o Key
              ELSE options.eventName[2])

\* With no eventName given, the listeners bound at onUpdate:modelValue were called.
C7_Witness ==
    /\ options.eventName = Undefined
    /\ Len(sent) >= 1
    /\ sent[1].event = "onUpdate:modelValue"
    /\ sent[1].via = "call"
    /\ Len(sent[1].fns) = 2

\* The owner takes every notification and writes its value back into props[key].
EchoOwner == owner.echo /\ (options.emit \/ call(Lookup(props, event)) # <<>>)

\* The last write was the only one since the adapter was at rest with such an owner,
\* the cell at the resolved source value.
OneWrite ==
    /\ options.passive
    /\ EchoOwner
    /\ stim.clean
    /\ stim.cell = ResolvedOf(stim.src)

\* The inbound watcher's job runs in this step, after a notification went out.
InboundAfterEcho ==
    /\ OneWrite
    /\ Len(sent) > 0
    /\ watchers.inbound.queued
    /\ ~watchers'.inbound.queued

\* The last write was a local write of null or undefined.
NullishLocalWrite == stim.kind = "local" /\ ~NotNullish(stim.value)

\* After one write, the watchers and the owner come to rest.
ComesToRest == OneWrite ~> (Quiescent \/ ~OneWrite)

\* C10, as claimed: with an owner that writes back, after any one write made at rest
\* with the cell and the source agreeing, the inbound watcher writes the value the cell
\* already holds, the outbound watcher is not triggered again, and the adapter comes to
\* rest with the cell at the resolved source value.
C10_AsClaimed ==
    /\ [][InboundAfterEcho => proxy' = proxy /\ ~watchers'.outbound.queued]_vars
    /\ [](OneWrite /\ Quiescent => proxy = Resolved)
    /\ ComesToRest

\* C10, amended: so it is after an external change and after a local write of a value
\* that is neither null nor undefined, with at most one notification and the cell at
\* the resolved source value once at rest. A local write of null or undefined may come
\* back as defaultValue, which the inbound watcher writes into the cell and the
\* outbound watcher sends as a second notification, or may stay in the cell while the
\* source resolves to defaultValue. In every case the adapter comes to rest, after at
\* most two notifications.
C10_NoCircularTrigger ==
    /\ [][(InboundAfterEcho /\ ~NullishLocalWrite)
            => proxy' = proxy /\ ~watchers'.outbound.queued]_vars
    /\ [](OneWrite => Len(sent) <= IF NotNullish(stim.value) THEN 1 ELSE 2)
    /\ [](OneWrite /\ Quiescent
            => proxy = Resolved \/ (NullishLocalWrite /\ proxy = stim.value))
    /\ ComesToRest

\* A local write went out once, came back through the owner, and the inbound watcher
\* has run and left the cell as it was.
C10_Witness ==
    /\ OneWrite
    /\ stim.kind = "local"
    /\ NotNullish(stim.value)
    /\ stim.value # stim.cell
    /\ Quiescent
    /\ Len(sent) = 1
    /\ watchers.inbound.old = stim.value
    /\ proxy = stim.value

====
